---- MODULE Spec2Model ----
(***************************************************************************)
(* Pose comparison and keyframe selection of the dance analysis backend:   *)
(* compare.py (geometry, per-joint comparison, ranking), config.py (the    *)
(* shared configuration), and the callers that pass a difficulty label     *)
(* (process_real_data.py, app.py) or overwrite the shared threshold        *)
(* (test_compare.py, example_usage.py).                                    *)
(*                                                                         *)
(* Numbers.  Coordinates are points of an integer grid.  Angles are whole  *)
(* degrees: AcosDeg quantises acos to the nearest degree with a cosine     *)
(* table, so 0, 45, 90, 135 and 180 are exact and every other angle is the *)
(* real one to within a degree.  Thresholds and deltas are whole degrees.  *)
(* Frame identifiers, strings in the program, are the integers             *)
(* 1..MaxFrames in their natural order.                                    *)
(***************************************************************************)
EXTENDS Integers, Sequences, FiniteSets, TLC

VARIABLES
    cfg_threshold,   \* config.ANGLE_THRESHOLD (class attribute of DanceAnalysisConfig)
    cfg_top_n,       \* config.TOP_N_FRAMES
    cmp_threshold,   \* compare.ANGLE_THRESHOLD (module global, copied at import)
    cmp_top_n,       \* compare.TOP_N_FRAMES (module global, copied at import)
    call,            \* the call in progress or just finished: its name and arguments
    ret,             \* what that call returned or raised
    req,             \* concurrent requests that overwrite and restore the threshold
    overlap,         \* history: two such requests were in flight at the same time
    prev,            \* the finished call whose result the caller kept, if any
    tmp_files,       \* the temporary files on disk
    tmp_count        \* how many upload requests have started

vars == <<cfg_threshold, cfg_top_n, cmp_threshold, cmp_top_n, call, ret, req, overlap, prev, tmp_files, tmp_count>>

(***************************************************************************)
(* Bounds of the model.                                                    *)
(***************************************************************************)
MaxCoord == 3
MaxFrames == 4
MaxSeed == 1
NumRequests == 2
MaxUploads == 3

(***************************************************************************)
(* Program constants (config.py).                                          *)
(***************************************************************************)
DefaultAngleThreshold == 10
DefaultTopNFrames == 3
BeginnerThreshold == 15
IntermediateThreshold == 10
AdvancedThreshold == 6
\* def compare_all_frames(pose_data): one positional parameter
CompareAllFramesParams == 1

JointOrder ==
    <<"right_arm", "left_arm", "right_leg", "left_leg", "torso", "torso_alt">>

JOINT_CONFIGS ==
    [right_arm |-> <<"right_shoulder", "right_elbow", "right_wrist">>,
     left_arm  |-> <<"left_shoulder", "left_elbow", "left_wrist">>,
     right_leg |-> <<"right_hip", "right_knee", "right_ankle">>,
     left_leg  |-> <<"left_hip", "left_knee", "left_ankle">>,
     torso     |-> <<"left_shoulder", "left_hip", "left_knee">>,
     torso_alt |-> <<"right_shoulder", "right_hip", "right_knee">>]

JointNames == DOMAIN JOINT_CONFIGS

DIFFICULTY_LEVELS ==
    [beginner |->
        [name |-> "Beginner (More Forgiving)",
         angle_threshold |-> BeginnerThreshold,
         priority_joints |-> <<"right_arm", "left_arm", "right_leg", "left_leg">>],
     intermediate |->
        [name |-> "Intermediate (Balanced)",
         angle_threshold |-> IntermediateThreshold,
         priority_joints |-> <<"right_arm", "left_arm", "torso">>],
     advanced |->
        [name |-> "Advanced (Precise)",
         angle_threshold |-> AdvancedThreshold,
         priority_joints |->
            <<"right_arm", "left_arm", "right_leg", "left_leg", "torso">>]]

SUGGESTION_TEMPLATES ==
    [right_arm |->
        [positive |-> <<"Lower your right arm a bit more",
                        "Bring your right arm down slightly",
                        "Drop your right arm a little",
                        "Let your right arm hang lower">>,
         negative |-> <<"Raise your right arm a bit more",
                        "Lift your right arm slightly higher",
                        "Bring your right arm up more",
                        "Extend your right arm upward">>,
         straighten |-> <<"Straighten your right arm more",
                          "Extend your right arm fully",
                          "Unbend your right arm",
                          "Make your right arm straighter">>,
         bend |-> <<"Bend your right arm more",
                    "Flex your right arm",
                    "Bend your elbow more",
                    "Make your right arm more bent">>],
     left_arm |->
        [positive |-> <<"Lower your left arm a bit more",
                        "Bring your left arm down slightly",
                        "Drop your left arm a little",
                        "Let your left arm hang lower">>,
         negative |-> <<"Raise your left arm a bit more",
                        "Lift your left arm slightly higher",
                        "Bring your left arm up more",
                        "Extend your left arm upward">>,
         straighten |-> <<"Straighten your left arm more",
                          "Extend your left arm fully",
                          "Unbend your left arm",
                          "Make your left arm straighter">>,
         bend |-> <<"Bend your left arm more",
                    "Flex your left arm",
                    "Bend your elbow more",
                    "Make your left arm more bent">>],
     right_leg |->
        [positive |-> <<"Lower your right leg a bit more",
                        "Bend your right knee slightly more",
                        "Drop your right leg down more",
                        "Sink into your right leg more">>,
         negative |-> <<"Raise your right leg a bit more",
                        "Straighten your right leg more",
                        "Lift your right leg higher",
                        "Extend your right leg more">>],
     left_leg |->
        [positive |-> <<"Lower your left leg a bit more",
                        "Bend your left knee slightly more",
                        "Drop your left leg down more",
                        "Sink into your left leg more">>,
         negative |-> <<"Raise your left leg a bit more",
                        "Straighten your left leg more",
                        "Lift your left leg higher",
                        "Extend your left leg more">>],
     torso |->
        [positive |-> <<"Straighten your posture a bit more",
                        "Stand up a little straighter",
                        "Pull your shoulders back slightly",
                        "Lengthen your spine more">>,
         negative |-> <<"Bend your torso a bit more",
                        "Lean forward slightly more",
                        "Relax your posture a little",
                        "Let your upper body bend more">>],
     torso_alt |->
        [positive |-> <<"Straighten your posture a bit more",
                        "Stand up a little straighter",
                        "Pull your shoulders back slightly",
                        "Lengthen your spine more">>,
         negative |-> <<"Bend your torso a bit more",
                        "Lean forward slightly more",
                        "Relax your posture a little",
                        "Let your upper body bend more">>]]

(***************************************************************************)
(* Python values: None, a raised exception, abs, min.                      *)
(***************************************************************************)
None == [kind |-> "None"]

\* How a call ends: it returns a value or raises an exception.
Returned(value) == [kind |-> "return", value |-> value]

Raised(exc) == [kind |-> "raise", exc |-> exc]

\* d[key]: KeyError when the key is absent
Lookup(d, key) == IF key \in DOMAIN d THEN Returned(d[key]) ELSE Raised("KeyError")

Abs(x) == IF x < 0 THEN -x ELSE x

Min(a, b) == IF a < b THEN a ELSE b

(***************************************************************************)
(* compare.calculate_angle                                                 *)
(***************************************************************************)
\* cos((k - 1/2) degrees) * 1000 for k = 1..90
CosHalfDeg ==
    <<1000, 1000, 999, 998, 997, 995, 994, 991, 989, 986,
      983, 980, 976, 972, 968, 964, 959, 954, 948, 943,
      937, 930, 924, 917, 910, 903, 895, 887, 879, 870,
      862, 853, 843, 834, 824, 814, 804, 793, 783, 772,
      760, 749, 737, 725, 713, 701, 688, 676, 663, 649,
      636, 623, 609, 595, 581, 566, 552, 537, 522, 508,
      492, 477, 462, 446, 431, 415, 399, 383, 367, 350,
      334, 317, 301, 284, 267, 250, 233, 216, 199, 182,
      165, 148, 131, 113, 96, 78, 61, 44, 26, 9>>

\* The table is non-increasing, so the k with cos((k - 1/2) degrees) above the
\* cosine whose square is d2 / magsq are 1..n: n is found by bisection.
AboveCos(k, d2, magsq) == d2 * 1000000 < CosHalfDeg[k] * CosHalfDeg[k] * magsq

RECURSIVE CountAbove(_, _, _, _)
CountAbove(lo, hi, d2, magsq) ==
    IF lo = hi THEN lo
    ELSE LET mid == (lo + hi + 1) \div 2
         IN  IF AboveCos(mid, d2, magsq)
             THEN CountAbove(mid, hi, d2, magsq)
             ELSE CountAbove(lo, mid - 1, d2, magsq)

\* degrees(acos(clamp(dot / sqrt(magsq), -1, 1))), to the nearest degree, magsq > 0
\* max(-1.0, min(1.0, cos_angle)), on the squares
ClampedSquare(dot, magsq) == IF dot * dot > magsq THEN magsq ELSE dot * dot

\* The angle of cosine sign(dot) * c from the acute angle of cosine c
Oriented(dot, acute) == IF dot >= 0 THEN acute ELSE 180 - acute

AcosDeg(dot, magsq) ==
    Oriented(dot, CountAbove(0, Len(CosHalfDeg), ClampedSquare(dot, magsq), magsq))

\* Python's all(p) for a coordinate pair: every component is truthy (non-zero)
AllTruthy(p) == p[1] # 0 /\ p[2] # 0

\* A coordinate may be float('nan').  Coordinates are integers here, and NaN is
\* the one value below the grid; it takes no part in arithmetic.
NaN == -(MaxCoord + 1)

HasNaN(p) == p[1] = NaN \/ p[2] = NaN

\* With a NaN component in any point, dot_product is NaN and so is cos_angle
\* unless a magnitude is 0 (0.0 is returned then as well); min(1.0, nan) is 1.0,
\* max(-1.0, 1.0) is 1.0 and acos(1.0) is 0.0: the angle is 0.  NaN is truthy
\* for all(p) and raises nothing.
calculate_angle(p1, p2, p3) ==
    IF ~AllTruthy(p1) /\ ~AllTruthy(p2) /\ ~AllTruthy(p3)
    THEN Raised("ValueError")
    ELSE IF HasNaN(p1) \/ HasNaN(p2) \/ HasNaN(p3)
    THEN [kind |-> "angle", value |-> 0]
    ELSE LET v1 == <<p1[1] - p2[1], p1[2] - p2[2]>>
             v2 == <<p3[1] - p2[1], p3[2] - p2[2]>>
             dot_product == v1[1] * v2[1] + v1[2] * v2[2]
             mag1sq == v1[1] * v1[1] + v1[2] * v1[2]
             mag2sq == v2[1] * v2[1] + v2[2] * v2[2]
         IN  IF mag1sq = 0 \/ mag2sq = 0
             THEN [kind |-> "angle", value |-> 0]
             ELSE [kind |-> "angle", value |-> AcosDeg(dot_product, mag1sq * mag2sq)]

(***************************************************************************)
(* compare.calculate_joint_angle                                           *)
(***************************************************************************)
\* A plausible slip: a missing keypoint read as the origin, pose.get(k, (0, 0)).
\* except (ValueError, KeyError): return None
CaughtAsNone(outcome) ==
    IF outcome.kind = "raise" /\ outcome.exc \in {"ValueError", "KeyError"}
    THEN None
    ELSE outcome

PointOrOrigin(pose, keypoint) ==
    IF keypoint \in DOMAIN pose THEN pose[keypoint] ELSE <<0, 0>>

calculate_joint_angle_missing_as_origin(pose, joint_config) ==
    CaughtAsNone(calculate_angle(PointOrOrigin(pose, joint_config[1]),
                                 PointOrOrigin(pose, joint_config[2]),
                                 PointOrOrigin(pose, joint_config[3])))

calculate_joint_angle(pose, joint_config) ==
    IF \E i \in 1..Len(joint_config) : joint_config[i] \notin DOMAIN pose
    THEN None
    ELSE CaughtAsNone(calculate_angle(pose[joint_config[1]], pose[joint_config[2]],
                                      pose[joint_config[3]]))

(***************************************************************************)
(* config.get_humanized_suggestion, compare.generate_suggestion            *)
(* random.choice is modelled by the draw it makes: an index into the list. *)
(***************************************************************************)
random_choice(seq, draw) == seq[(draw % Len(seq)) + 1]

Fallback(joint) == "Adjust your " \o joint \o " slightly"

\* A plausible slip: the two directions exchanged.
get_humanized_suggestion_swapped(joint, delta, draw) ==
    IF joint \notin DOMAIN SUGGESTION_TEMPLATES
    THEN Fallback(joint)
    ELSE random_choice(IF delta > 0 THEN SUGGESTION_TEMPLATES[joint].negative
                                    ELSE SUGGESTION_TEMPLATES[joint].positive, draw)

get_humanized_suggestion(joint, delta, draw) ==
    IF joint \notin DOMAIN SUGGESTION_TEMPLATES
    THEN Fallback(joint)
    ELSE LET templates == SUGGESTION_TEMPLATES[joint]
             suggestions == IF delta > 0
                            THEN (IF "positive" \in DOMAIN templates
                                  THEN templates.positive ELSE <<>>)
                            ELSE (IF "negative" \in DOMAIN templates
                                  THEN templates.negative ELSE <<>>)
         IN  IF suggestions # <<>>
             THEN random_choice(suggestions, draw)
             ELSE Fallback(joint)

generate_suggestion(joint, delta, draw) == get_humanized_suggestion(joint, delta, draw)

\* The draw the pos-th call of random.choice makes in the random stream `seed`.
DrawAt(seed, pos) == seed * pos

(***************************************************************************)
(* compare.compare_frame_poses                                             *)
(* The loop over JOINT_CONFIGS.items() (insertion order), from joint i on, *)
(* with the accumulators joint_issues and total_error; pos counts the      *)
(* random.choice calls made before this call.                              *)
(***************************************************************************)
JointIssue(joint, delta_angle, suggestion) ==
    [joint |-> joint, delta_angle |-> delta_angle, suggestion |-> suggestion]

FrameComparisonResult(frame_id, total_error, joint_issues, suggestions) ==
    [kind |-> "FrameComparisonResult", frame_id |-> frame_id,
     total_error |-> total_error, joint_issues |-> joint_issues,
     suggestions |-> suggestions, timestamp |-> None]

\* A plausible slip: >= for >, which flags a delta equal to the threshold.
ExceedsThreshold_inclusive(delta_angle) == Abs(delta_angle) >= cmp_threshold

\* A plausible slip: the comparison turned around.
ExceedsThreshold_below(delta_angle) == Abs(delta_angle) < cmp_threshold

\* abs(delta_angle) > ANGLE_THRESHOLD, read from the module global at each joint
ExceedsThreshold(delta_angle) == Abs(delta_angle) > cmp_threshold

\* A plausible slip: the signed delta added, abs forgotten.
ErrorContribution_signed(delta_angle) == delta_angle

\* total_error += abs(delta_angle)
ErrorContribution(delta_angle) == Abs(delta_angle)

\* The flagging of one resolved joint: acc holds joint_issues and total_error
FlagJoint(acc, joint_name, delta_angle, seed, pos) ==
    IF ExceedsThreshold(delta_angle)
    THEN [joint_issues |->
             Append(acc.joint_issues,
                    JointIssue(joint_name, delta_angle,
                        generate_suggestion(joint_name, delta_angle,
                            DrawAt(seed, pos + Len(acc.joint_issues) + 1)))),
          total_error |-> acc.total_error + ErrorContribution(delta_angle)]
    ELSE acc

\* The body of the loop for one joint, given its two angles
\* A plausible slip: the reference angle left out of the difference.
CompareJoint_user_angle_only(acc, joint_name, original_angle, user_angle, seed, pos) ==
    IF original_angle = None \/ user_angle = None
    THEN acc
    ELSE FlagJoint(acc, joint_name, user_angle.value, seed, pos)

CompareJoint(acc, joint_name, original_angle, user_angle, seed, pos) ==
    IF original_angle = None \/ user_angle = None
    THEN acc
    ELSE FlagJoint(acc, joint_name, user_angle.value - original_angle.value, seed, pos)

\* The one element of a one-element set.  Loops below bind the state of an
\* iteration, `next`, to its value before the following iteration starts.
Only(S) == CHOOSE x \in S : TRUE

RECURSIVE CompareJoints(_, _, _, _, _, _)
CompareJoints(original_pose, user_pose, i, acc, seed, pos) ==
    IF i > Len(JointOrder)
    THEN acc
    ELSE Only({CompareJoints(original_pose, user_pose, i + 1, next, seed, pos) :
                 next \in {CompareJoint(acc, JointOrder[i],
                     calculate_joint_angle(original_pose, JOINT_CONFIGS[JointOrder[i]]),
                     calculate_joint_angle(user_pose, JOINT_CONFIGS[JointOrder[i]]),
                     seed, pos)}})

NoIssues == [joint_issues |-> <<>>, total_error |-> 0]

BuildResult(frame_id, acc) ==
    FrameComparisonResult(frame_id, acc.total_error, acc.joint_issues,
        [k \in 1..Len(acc.joint_issues) |-> acc.joint_issues[k].suggestion])

\* if joint_issues: return FrameComparisonResult(...); return None
ResultOrNone(frame_id, acc) ==
    IF acc.joint_issues # <<>> THEN BuildResult(frame_id, acc) ELSE None

\* A plausible slip: the result is built even when no joint was flagged.
compare_frame_poses_always_result(original_pose, user_pose, frame_id, seed, pos) ==
    BuildResult(frame_id, CompareJoints(original_pose, user_pose, 1, NoIssues, seed, pos))

compare_frame_poses(original_pose, user_pose, frame_id, seed, pos) ==
    ResultOrNone(frame_id, CompareJoints(original_pose, user_pose, 1, NoIssues, seed, pos))

(***************************************************************************)
(* compare.compare_all_frames                                              *)
(* `order` is the order in which the loop meets the set common_frames: a   *)
(* Python set of strings iterates in hash order, which differs from one    *)
(* interpreter run to the next.                                            *)
(***************************************************************************)
Max(a, b) == IF a > b THEN a ELSE b

\* seq[:n]
SlicePrefix(seq, n) ==
    IF n >= 0 THEN SubSeq(seq, 1, Min(n, Len(seq)))
              ELSE SubSeq(seq, 1, Max(Len(seq) + n, 0))

\* A plausible slip: the loop runs over the reference frames, not the common ones.
CommonFrames_original_keys(pose_data) == DOMAIN pose_data.original

\* set(pose_data.original.keys()) & set(pose_data.user.keys())
CommonFrames(pose_data) == DOMAIN pose_data.original \cap DOMAIN pose_data.user

\* The orders the model lets the loop take: ascending and descending frame id,
\* which put every pair of common frames in both relative orders.
RECURSIVE Ascending(_)
Ascending(S) ==
    IF S = {} THEN <<>>
    ELSE LET m == CHOOSE x \in S : \A y \in S : x <= y
         IN  <<m>> \o Ascending(S \ {m})

Reverse(seq) == [k \in 1..Len(seq) |-> seq[Len(seq) + 1 - k]]

IterationOrders(S) == {Ascending(S), Reverse(Ascending(S))}

\* Number of random.choice calls a compare_frame_poses call made
DrawsOf(result) == IF result = None THEN 0 ELSE Len(result.joint_issues)

\* if result: frame_results.append(result); collected holds frame_results and
\* the number of random.choice calls made so far
AppendResult(collected, result) ==
    [frame_results |-> IF result # None THEN Append(collected.frame_results, result)
                                        ELSE collected.frame_results,
     pos |-> collected.pos + DrawsOf(result)]

\* The loop over common_frames; a failed lookup ends the call with its exception.
RECURSIVE CollectFrames(_, _, _, _, _)
CollectFrames(pose_data, order, i, collected, seed) ==
    IF i > Len(order)
    THEN Returned(collected.frame_results)
    ELSE IF Lookup(pose_data.original, order[i]).kind = "raise"
    THEN Lookup(pose_data.original, order[i])
    ELSE IF Lookup(pose_data.user, order[i]).kind = "raise"
    THEN Lookup(pose_data.user, order[i])
    ELSE Only({CollectFrames(pose_data, order, i + 1, next, seed) :
                 next \in {AppendResult(collected,
                     compare_frame_poses(Lookup(pose_data.original, order[i]).value,
                                         Lookup(pose_data.user, order[i]).value,
                                         order[i], seed, collected.pos))}})

\* A plausible slip: reverse=True forgotten, so the smallest error comes first.
SortsBefore_ascending(a, b) == a.total_error < b.total_error

\* key=lambda x: x.total_error, reverse=True: a goes before b
SortsBefore(a, b) == a.total_error > b.total_error

\* list.sort is stable: x goes after every element it does not sort before
RECURSIVE InsertStable(_, _)
InsertStable(sorted, x) ==
    IF sorted = <<>> THEN <<x>>
    ELSE LET last == sorted[Len(sorted)]
         IN  IF SortsBefore(x, last)
             THEN Append(InsertStable(SubSeq(sorted, 1, Len(sorted) - 1), x), last)
             ELSE Append(sorted, x)

RECURSIVE StableSort(_, _)
StableSort(seq, i) ==
    IF i = 0 THEN <<>>
    ELSE Only({InsertStable(sorted, seq[i]) : sorted \in {StableSort(seq, i - 1)}})

\* frame_results.sort(...); return frame_results[:TOP_N_FRAMES]
RankAndCut(outcome) ==
    IF outcome.kind = "raise" THEN outcome
    ELSE Returned(SlicePrefix(StableSort(outcome.value, Len(outcome.value)), cmp_top_n))

compare_all_frames(pose_data, order, seed) ==
    IF CommonFrames(pose_data) = {}
    THEN Returned(<<>>)
    ELSE RankAndCut(CollectFrames(pose_data, order, 1,
                                  [frame_results |-> <<>>, pos |-> 0], seed))

(***************************************************************************)
(* Inputs: poses on the grid.                                              *)
(***************************************************************************)
Grid == (0..MaxCoord) \X (0..MaxCoord)

FrameIds == 1..MaxFrames

Seeds == 0..MaxSeed

ThresholdInputs == {AdvancedThreshold, IntermediateThreshold, BeginnerThreshold, 45}

\* Arms straight (180), knees at a right angle (90), torso straight (180).
BasePose ==
    [right_shoulder |-> <<3, 1>>, right_elbow |-> <<3, 2>>, right_wrist |-> <<3, 3>>,
     left_shoulder  |-> <<1, 1>>, left_elbow  |-> <<1, 2>>, left_wrist  |-> <<1, 3>>,
     right_hip      |-> <<3, 2>>, right_knee  |-> <<3, 3>>, right_ankle |-> <<2, 3>>,
     left_hip       |-> <<1, 2>>, left_knee   |-> <<1, 3>>, left_ankle  |-> <<2, 3>>]

With(pose, keypoint, coordinate) ==
    [k \in DOMAIN pose \cup {keypoint} |->
        IF k = keypoint THEN coordinate ELSE pose[k]]

Without(pose, keypoint) == [k \in DOMAIN pose \ {keypoint} |-> pose[k]]

\* BasePose with the right wrist at rw (<<>>: not detected), the right upper arm
\* in column arm_x, and the left knee at lk.
Variant(rw, arm_x, lk) ==
    LET a == With(With(BasePose, "right_shoulder", <<arm_x, 1>>),
                  "right_elbow", <<arm_x, 2>>)
        b == With(a, "left_knee", lk)
    IN  IF rw = <<>> THEN Without(b, "right_wrist") ELSE With(b, "right_wrist", rw)

LeftKneeOptions == {<<1, 3>>, <<2, 2>>, <<2, 3>>}

UserPoses ==
    {Variant(rw, arm_x, lk) : rw \in Grid \cup {<<>>}, arm_x \in {0, 3},
                              lk \in LeftKneeOptions}

ReferencePoses ==
    {Variant(rw, arm_x, <<1, 3>>) : rw \in {<<3, 3>>, <<2, 2>>, <<>>}, arm_x \in {0, 3}}

\* Pose sequences: each frame is in the reference only, in the user sequence
\* only, or in both with the user pose matching the reference (BasePose), off
\* at the right arm (135 for 180), or off at the right arm and the torso.
SequenceUserPoses ==
    {BasePose, Variant(<<2, 3>>, 3, <<1, 3>>), Variant(<<2, 2>>, 3, <<2, 2>>)}

FrameSlots ==
    {[original |-> <<BasePose>>, user |-> <<>>],
     [original |-> <<>>, user |-> <<BasePose>>]}
    \cup {[original |-> <<BasePose>>, user |-> <<u>>] : u \in SequenceUserPoses}

PoseData(slots) ==
    [original |-> [f \in {g \in FrameIds : slots[g].original # <<>>} |->
                      slots[f].original[1]],
     user     |-> [f \in {g \in FrameIds : slots[g].user # <<>>} |->
                      slots[f].user[1]]]

PoseDataInputs == {PoseData(slots) : slots \in [FrameIds -> FrameSlots]}

(***************************************************************************)
(* State after import: compare.py copies the two settings from config.     *)
(***************************************************************************)
Requests == 1..NumRequests

Idle == [op |-> "idle"]

Init ==
    /\ cfg_threshold = DefaultAngleThreshold
    /\ cfg_top_n = DefaultTopNFrames
    /\ cmp_threshold = DefaultAngleThreshold
    /\ cmp_top_n = DefaultTopNFrames
    /\ call = Idle
    /\ ret = None
    /\ req = [r \in Requests |-> [pc |-> "start", saved |-> None, used |-> None,
                                  found |-> None, compare_before |-> None]]
    /\ overlap = FALSE
    /\ prev = None
    /\ tmp_files = {}
    /\ tmp_count = 0

\* compare.ANGLE_THRESHOLD = t, the assignment the style analyses make
SetCompareThreshold(t) ==
    /\ call = Idle
    /\ cmp_threshold' = t
    /\ UNCHANGED <<cfg_threshold, cfg_top_n, cmp_top_n, call, ret, req, overlap, prev, tmp_files, tmp_count>>

\* A direct call of compare_frame_poses
CallCompareFramePoses(original_pose, user_pose, frame_id, seed) ==
    /\ call = Idle
    /\ call' = [op |-> "compare_frame_poses", original_pose |-> original_pose,
                user_pose |-> user_pose, frame_id |-> frame_id, seed |-> seed]
    /\ ret' = Returned(compare_frame_poses(original_pose, user_pose, frame_id, seed, 0))
    /\ UNCHANGED <<cfg_threshold, cfg_top_n, cmp_threshold, cmp_top_n, req, overlap, prev, tmp_files, tmp_count>>

\* The caller is done with the returned value
Return ==
    /\ call # Idle
    /\ call' = Idle
    /\ ret' = None
    /\ UNCHANGED <<cfg_threshold, cfg_top_n, cmp_threshold, cmp_top_n, req, overlap, prev, tmp_files, tmp_count>>

\* A direct call of compare_all_frames(pose_data)
CallCompareAllFrames(pose_data, order, seed) ==
    /\ call = Idle
    /\ call' = [op |-> "compare_all_frames", pose_data |-> pose_data,
                order |-> order, seed |-> seed]
    /\ ret' = compare_all_frames(pose_data, order, seed)
    /\ UNCHANGED <<cfg_threshold, cfg_top_n, cmp_threshold, cmp_top_n, req, overlap, prev, tmp_files, tmp_count>>

\* Calls start when no call is in progress: the guard stands before the inputs.
NextFrame ==
    \/ \E t \in ThresholdInputs : SetCompareThreshold(t)
    \/ /\ call = Idle
       /\ \E o \in ReferencePoses, u \in UserPoses, f \in {1, MaxFrames}, seed \in Seeds :
             CallCompareFramePoses(o, u, f, seed)
    \/ Return

SpecFrame == Init /\ [][NextFrame]_vars

Next ==
    \/ \E t \in ThresholdInputs : SetCompareThreshold(t)
    \/ /\ call = Idle
       /\ \E pose_data \in PoseDataInputs, seed \in {0, MaxSeed} :
             \E order \in IterationOrders(CommonFrames(pose_data)) :
                 CallCompareAllFrames(pose_data, order, seed)
    \/ Return

Spec == Init /\ [][Next]_vars

(***************************************************************************)
(* Callers that pass a difficulty label: run_analysis and the              *)
(* /compare-poses endpoint.                                                *)
(***************************************************************************)
\* DIFFICULTY_LEVELS.get(difficulty, {... "angle_threshold": cls.ANGLE_THRESHOLD ...})
get_difficulty_config(difficulty) ==
    IF difficulty \in DOMAIN DIFFICULTY_LEVELS
    THEN DIFFICULTY_LEVELS[difficulty]
    ELSE [name |-> "Intermediate (Balanced)",
          angle_threshold |-> cfg_threshold,
          priority_joints |-> JointOrder]

\* compare_all_frames(*args): Python raises TypeError unless the number of
\* positional arguments is the number of parameters.
call_compare_all_frames(args, order, seed) ==
    IF Len(args) # CompareAllFramesParams
    THEN Raised("TypeError")
    ELSE compare_all_frames(args[1], order, seed)

RequiredKeypoints ==
    {JOINT_CONFIGS[j][i] : j \in JointNames, i \in 1..3}

\* True when some frame of either sequence has every required keypoint
validate_pose_data(pose_data) ==
    \/ \E f \in DOMAIN pose_data.original :
          RequiredKeypoints \subseteq DOMAIN pose_data.original[f]
    \/ \E f \in DOMAIN pose_data.user :
          RequiredKeypoints \subseteq DOMAIN pose_data.user[f]

\* A plausible slip: the sum starts at the second result.
RECURSIVE SumErrors_from_second(_, _)
SumErrors_from_second(results, n) ==
    IF n <= 1 THEN 0 ELSE SumErrors_from_second(results, n - 1) + results[n].total_error

RECURSIVE SumErrors(_, _)
SumErrors(results, n) ==
    IF n = 0 THEN 0 ELSE SumErrors(results, n - 1) + results[n].total_error

\* joint_counts is a dict: its items in insertion order, as [joint, count] records
PositionOf(joint_counts, joint) ==
    {k \in 1..Len(joint_counts) : joint_counts[k].joint = joint}

\* joint_counts[issue.joint] = joint_counts.get(issue.joint, 0) + 1
CountIssue(joint_counts, joint) ==
    IF PositionOf(joint_counts, joint) = {}
    THEN Append(joint_counts, [joint |-> joint, count |-> 1])
    ELSE [k \in 1..Len(joint_counts) |->
             IF joint_counts[k].joint = joint
             THEN [joint |-> joint, count |-> joint_counts[k].count + 1]
             ELSE joint_counts[k]]

\* for issue in result.joint_issues
RECURSIVE CountIssues(_, _, _)
CountIssues(joint_issues, k, joint_counts) ==
    IF k > Len(joint_issues)
    THEN joint_counts
    ELSE Only({CountIssues(joint_issues, k + 1, next) :
                 next \in {CountIssue(joint_counts, joint_issues[k].joint)}})

\* for result in results
RECURSIVE CountResults(_, _, _)
CountResults(results, n, joint_counts) ==
    IF n > Len(results)
    THEN joint_counts
    ELSE Only({CountResults(results, n + 1, next) :
                 next \in {CountIssues(results[n].joint_issues, 1, joint_counts)}})

\* A plausible slip: a later item of equal count replaces the earlier one.
RECURSIVE MaxByCount_last(_, _)
MaxByCount_last(items, k) ==
    IF k = 1 THEN items[1]
    ELSE Only({IF items[k].count >= best.count THEN items[k] ELSE best :
                 best \in {MaxByCount_last(items, k - 1)}})

\* max(joint_counts.items(), key=lambda x: x[1]) over the first k items: max
\* keeps the first of the items with the largest key
RECURSIVE MaxByCount(_, _)
MaxByCount(items, k) ==
    IF k = 1 THEN items[1]
    ELSE Only({IF items[k].count > best.count THEN items[k] ELSE best :
                 best \in {MaxByCount(items, k - 1)}})

\* The dictionary returned for a non-empty list; average_error is the quotient
\* total_error / len(results), kept as the pair
Summary(results, total_error, joint_counts) ==
    [total_frames_analyzed |-> Len(results),
     total_error |-> total_error,
     average_error |-> [dividend |-> total_error, divisor |-> Len(results)],
     most_problematic_joint |->
        IF joint_counts # <<>>
        THEN MaxByCount(joint_counts, Len(joint_counts)).joint
        ELSE None,
     joint_issue_counts |-> joint_counts]

get_analysis_summary(results) ==
    IF results = <<>>
    THEN [total_frames_analyzed |-> 0, problematic_frames |-> 0]
    ELSE Summary(results, SumErrors(results, Len(results)), CountResults(results, 1, <<>>))

\* summary.get(key, 0)
SummaryGet(summary, key) == IF key \in DOMAIN summary THEN summary[key] ELSE 0

\* The analysis_results dictionary
FormatResults(pose_data, difficulty, difficulty_config, results, summary) ==
    [difficulty |-> difficulty,
     difficulty_name |-> difficulty_config.name,
     threshold |-> difficulty_config.angle_threshold,
     frames_analyzed |-> Cardinality(DOMAIN pose_data.original),
     problematic_frames |-> Len(results),
     total_error |-> SummaryGet(summary, "total_error"),
     average_error |-> SummaryGet(summary, "average_error"),
     results |-> [k \in 1..Len(results) |->
        [frame_id |-> results[k].frame_id,
         score |-> results[k].total_error,
         joint_issues |-> results[k].joint_issues,
         suggestions |-> results[k].suggestions]]]

\* What follows the call of compare_all_frames, whose exception is not caught
AfterComparison(pose_data, difficulty, difficulty_config, outcome) ==
    IF outcome.kind = "raise" THEN outcome
    ELSE Returned(FormatResults(pose_data, difficulty, difficulty_config,
                                outcome.value, get_analysis_summary(outcome.value)))

run_analysis(pose_data, difficulty, order, seed) ==
    AfterComparison(pose_data, difficulty, get_difficulty_config(difficulty),
        call_compare_all_frames(<<pose_data, difficulty>>, order, seed))

\* The body of the endpoint's try block
compare_poses_body(pose_data, difficulty, order, seed) ==
    IF ~validate_pose_data(pose_data)
    THEN Raised("HTTPException(400)")
    ELSE call_compare_all_frames(<<pose_data, difficulty>>, order, seed)

\* except Exception: every exception of the body, the 400 included, becomes a 500
CaughtAs500(outcome) ==
    IF outcome.kind = "raise" THEN Raised("HTTPException(500)") ELSE outcome

compare_poses(pose_data, difficulty, order, seed) ==
    CaughtAs500(compare_poses_body(pose_data, difficulty, order, seed))

DifficultyInputs == {"beginner", "intermediate", "advanced", "expert"}

\* Sequences for the callers: frame 1 and the later frames each in one slot; a
\* slot may hold poses whose right wrist was not detected.
ApiFrameSlots ==
    FrameSlots \cup {[original |-> <<Without(BasePose, "right_wrist")>>,
                      user |-> <<Without(BasePose, "right_wrist")>>]}

ApiPoseDataInputs ==
    {PoseData(slots) :
        slots \in {s \in [FrameIds -> ApiFrameSlots] :
                      \A f, g \in FrameIds \ {1} : s[f] = s[g]}}

\* config.update_threshold(new_threshold)
UpdateThreshold(new_threshold) ==
    /\ call = Idle
    /\ cfg_threshold' = new_threshold
    /\ UNCHANGED <<cfg_top_n, cmp_threshold, cmp_top_n, call, ret, req, overlap, prev, tmp_files, tmp_count>>

CallRunAnalysis(pose_data, difficulty, order, seed) ==
    /\ call = Idle
    /\ call' = [op |-> "run_analysis", pose_data |-> pose_data,
                difficulty |-> difficulty, order |-> order, seed |-> seed]
    /\ ret' = run_analysis(pose_data, difficulty, order, seed)
    /\ UNCHANGED <<cfg_threshold, cfg_top_n, cmp_threshold, cmp_top_n, req, overlap, prev, tmp_files, tmp_count>>

CallComparePoses(pose_data, difficulty, order, seed) ==
    /\ call = Idle
    /\ call' = [op |-> "compare_poses", pose_data |-> pose_data,
                difficulty |-> difficulty, order |-> order, seed |-> seed]
    /\ ret' = compare_poses(pose_data, difficulty, order, seed)
    /\ UNCHANGED <<cfg_threshold, cfg_top_n, cmp_threshold, cmp_top_n, req, overlap, prev, tmp_files, tmp_count>>

NextApi ==
    \/ \E t \in ThresholdInputs : UpdateThreshold(t)
    \/ /\ call = Idle
       /\ \E pose_data \in ApiPoseDataInputs, difficulty \in DifficultyInputs :
             CallRunAnalysis(pose_data, difficulty,
                             Ascending(CommonFrames(pose_data)), 0)
    \/ /\ call = Idle
       /\ \E pose_data \in ApiPoseDataInputs, difficulty \in DifficultyInputs :
             CallComparePoses(pose_data, difficulty,
                              Ascending(CommonFrames(pose_data)), 0)
    \/ Return

SpecApi == Init /\ [][NextApi]_vars

(***************************************************************************)
(* The style analyses (test_compare.py 210-223, example_usage.py 116-144): *)
(* save config.ANGLE_THRESHOLD, overwrite it and compare.ANGLE_THRESHOLD   *)
(* with the style's threshold, compare, restore both.  Requests run the    *)
(* statements one at a time, interleaved in any order.                     *)
(***************************************************************************)
\* style_config['angle_threshold'] of the style a request analyses
StyleThresholds == <<45, AdvancedThreshold, BeginnerThreshold>>

OwnThreshold(r) == StyleThresholds[((r - 1) % Len(StyleThresholds)) + 1]

\* The pose data every style is analysed on: two frames, the user's right arm
\* off by 45 in the first and arm and knee off in the second.
StylePoseData ==
    [original |-> [f \in {1, 2} |-> BasePose],
     user     |-> [f \in {1, 2} |-> IF f = 1 THEN Variant(<<2, 3>>, 3, <<1, 3>>)
                                             ELSE Variant(<<2, 2>>, 3, <<2, 2>>)]]

InFlight(r) == req[r].pc \notin {"start", "done"}

\* original_threshold = config.ANGLE_THRESHOLD; compare_before is history: the
\* value compare.ANGLE_THRESHOLD has when the sequence begins, which the code
\* does not save
SaveThreshold(r) ==
    /\ req[r].pc = "start"
    /\ req' = [req EXCEPT ![r].pc = "saved", ![r].saved = cfg_threshold,
                          ![r].compare_before = cmp_threshold]
    /\ overlap' = (overlap \/ \E o \in Requests \ {r} : InFlight(o))
    /\ UNCHANGED <<cfg_threshold, cfg_top_n, cmp_threshold, cmp_top_n, call, ret, prev, tmp_files, tmp_count>>

\* config.update_threshold(style_config['angle_threshold'])
OverwriteConfig(r) ==
    /\ req[r].pc = "saved"
    /\ cfg_threshold' = OwnThreshold(r)
    /\ req' = [req EXCEPT ![r].pc = "configured"]
    /\ UNCHANGED <<cfg_top_n, cmp_threshold, cmp_top_n, call, ret, overlap, prev, tmp_files, tmp_count>>

\* compare.ANGLE_THRESHOLD = style_config['angle_threshold']
OverwriteCompare(r) ==
    /\ req[r].pc = "configured"
    /\ cmp_threshold' = OwnThreshold(r)
    /\ req' = [req EXCEPT ![r].pc = "overwritten"]
    /\ UNCHANGED <<cfg_threshold, cfg_top_n, cmp_top_n, call, ret, overlap, prev, tmp_files, tmp_count>>

\* results = compare_all_frames(test_pose_data), under the threshold then shared
RunComparison(r) ==
    /\ req[r].pc = "overwritten"
    /\ \E order \in IterationOrders(CommonFrames(StylePoseData)) :
          req' = [req EXCEPT ![r].pc = "compared",
                             ![r].used = cmp_threshold,
                             ![r].found = compare_all_frames(StylePoseData, order, 0)]
    /\ UNCHANGED <<cfg_threshold, cfg_top_n, cmp_threshold, cmp_top_n, call, ret, overlap, prev, tmp_files, tmp_count>>

\* A plausible slip: the style's own threshold is written back
RestoredThreshold_own(r) == OwnThreshold(r)

\* original_threshold, the value the two restoring statements write
RestoredThreshold(r) == req[r].saved

\* config.update_threshold(original_threshold)
RestoreConfig(r) ==
    /\ req[r].pc = "compared"
    /\ cfg_threshold' = RestoredThreshold(r)
    /\ req' = [req EXCEPT ![r].pc = "restored"]
    /\ UNCHANGED <<cfg_top_n, cmp_threshold, cmp_top_n, call, ret, overlap, prev, tmp_files, tmp_count>>

\* compare.ANGLE_THRESHOLD = original_threshold
RestoreCompare(r) ==
    /\ req[r].pc = "restored"
    /\ cmp_threshold' = RestoredThreshold(r)
    /\ req' = [req EXCEPT ![r].pc = "done"]
    /\ UNCHANGED <<cfg_threshold, cfg_top_n, cmp_top_n, call, ret, overlap, prev, tmp_files, tmp_count>>

\* compare_all_frames raises, as it does on a keypoint with a single
\* component (IndexError in calculate_angle, which calculate_joint_angle does
\* not catch); the statements after the call, the two restoring ones
\* included, are not executed: there is no try/finally around the call.
ComparisonRaises(r) ==
    /\ req[r].pc = "overwritten"
    /\ req' = [req EXCEPT ![r].pc = "done", ![r].used = cmp_threshold,
                          ![r].found = Raised("IndexError")]
    /\ UNCHANGED <<cfg_threshold, cfg_top_n, cmp_threshold, cmp_top_n, call, ret, overlap, prev, tmp_files, tmp_count>>

NextRace ==
    \/ \E r \in Requests : SaveThreshold(r)
    \/ \E r \in Requests : OverwriteConfig(r)
    \/ \E r \in Requests : OverwriteCompare(r)
    \/ \E r \in Requests : RunComparison(r)
    \/ \E r \in Requests : RestoreConfig(r)
    \/ \E r \in Requests : RestoreCompare(r)

SpecRace == Init /\ [][NextRace]_vars

\* One caller at a time: a sequence starts when no other is under way, and
\* config.update_threshold is called between sequences only.
NoneInFlight == \A r \in Requests : ~InFlight(r)

NextSequence ==
    \/ /\ NoneInFlight
       /\ \E t \in ThresholdInputs : UpdateThreshold(t)
    \/ /\ NoneInFlight
       /\ \E r \in Requests : SaveThreshold(r)
    \/ \E r \in Requests : OverwriteConfig(r)
    \/ \E r \in Requests : OverwriteCompare(r)
    \/ \E r \in Requests : RunComparison(r)
    \/ \E r \in Requests : ComparisonRaises(r)
    \/ \E r \in Requests : RestoreConfig(r)
    \/ \E r \in Requests : RestoreCompare(r)

SpecSequence == Init /\ [][NextSequence]_vars

(***************************************************************************)
(* The configuration setters beside the comparison: config.update_threshold*)
(* and config.update_top_n_frames write the class attributes, the          *)
(* comparison reads the module globals of compare.py.                      *)
(***************************************************************************)
TopNInputs == 1..MaxFrames

\* config.update_top_n_frames(new_top_n)
UpdateTopNFrames(new_top_n) ==
    /\ call = Idle
    /\ cfg_top_n' = new_top_n
    /\ UNCHANGED <<cfg_threshold, cmp_threshold, cmp_top_n, call, ret, req, overlap, prev, tmp_files, tmp_count>>

NextConfig ==
    \/ \E t \in ThresholdInputs : UpdateThreshold(t)
    \/ \E n \in TopNInputs : UpdateTopNFrames(n)
    \/ \E t \in ThresholdInputs : SetCompareThreshold(t)
    \/ /\ call = Idle
       /\ \E pose_data \in ApiPoseDataInputs :
             \E order \in IterationOrders(CommonFrames(pose_data)) :
                 CallCompareAllFrames(pose_data, order, 0)
    \/ Return

SpecConfig == Init /\ [][NextConfig]_vars

(***************************************************************************)
(* A caller that calls the comparison again and again and keeps the last   *)
(* result: the same poses under the same or another threshold.             *)
(***************************************************************************)
\* Every frame pairs the reference with the same user pose: equal errors
TiedPoseData ==
    CHOOSE pose_data \in PoseDataInputs :
        /\ DOMAIN pose_data.original = FrameIds
        /\ DOMAIN pose_data.user = FrameIds
        /\ \A f \in FrameIds : pose_data.user[f] = Variant(<<2, 3>>, 3, <<1, 3>>)

RepeatPoseDataInputs == {StylePoseData, TiedPoseData}

\* User poses for repeated single-frame calls; the last one is off the
\* reference by 45 degrees at two joints and by 90 at a third.
RepeatUserPoses == SequenceUserPoses \cup {Variant(<<2, 3>>, 3, <<2, 3>>)}

\* results = compare_...(...): the caller keeps the outcome and goes on
KeepResult ==
    /\ call # Idle
    /\ prev' = [call |-> call, ret |-> ret,
                threshold |-> cmp_threshold, top_n |-> cmp_top_n]
    /\ call' = Idle
    /\ ret' = None
    /\ UNCHANGED <<cfg_threshold, cfg_top_n, cmp_threshold, cmp_top_n, req, overlap,
                   tmp_files, tmp_count>>

\* Thresholds for repeated calls: one more, above the deltas of 45 degrees
RepeatThresholdInputs == ThresholdInputs \cup {90}

NextRepeat ==
    \/ \E t \in RepeatThresholdInputs : SetCompareThreshold(t)
    \/ /\ call = Idle
       /\ \E u \in RepeatUserPoses, seed \in Seeds :
             CallCompareFramePoses(BasePose, u, 1, seed)
    \/ /\ call = Idle
       /\ \E pose_data \in RepeatPoseDataInputs, seed \in {0, MaxSeed} :
             \E order \in IterationOrders(CommonFrames(pose_data)) :
                 CallCompareAllFrames(pose_data, order, seed)
    \/ KeepResult

SpecRepeat == Init /\ [][NextRepeat]_vars

(***************************************************************************)
(* Direct calls of generate_suggestion, as the tests make them, next to    *)
(* single-frame comparisons.                                               *)
(***************************************************************************)

\* The joints of the tests: the configured ones and one without templates
SuggestionJoints == JointNames \cup {"head_tilt"}

DeltaInputs == {-45, -11, 0, 11, 45}

\* One draw for each position of a template list
DrawInputs == 0..(Len(SUGGESTION_TEMPLATES.right_arm.positive) - 1)

CallGenerateSuggestion(joint, delta, draw) ==
    /\ call = Idle
    /\ call' = [op |-> "generate_suggestion", joint |-> joint, delta |-> delta,
                draw |-> draw]
    /\ ret' = Returned(generate_suggestion(joint, delta, draw))
    /\ UNCHANGED <<cfg_threshold, cfg_top_n, cmp_threshold, cmp_top_n, req, overlap, prev, tmp_files, tmp_count>>

NextSuggest ==
    \/ /\ call = Idle
       /\ \E joint \in SuggestionJoints, delta \in DeltaInputs, draw \in DrawInputs :
             CallGenerateSuggestion(joint, delta, draw)
    \/ /\ call = Idle
       /\ \E u \in RepeatUserPoses, seed \in Seeds :
             CallCompareFramePoses(BasePose, u, 1, seed)
    \/ Return

SpecSuggest == Init /\ [][NextSuggest]_vars

(***************************************************************************)
(* Single-frame comparisons of poses with a coordinate that is not a       *)
(* number                                                                  *)
(***************************************************************************)

MalformedPoints == {<<NaN, 3>>, <<3, NaN>>, <<NaN, NaN>>}

\* A pose with one keypoint replaced by a malformed point
MalformedPoses ==
    {With(pose, keypoint, p) :
        pose \in RepeatUserPoses \cup {Variant(<<0, 3>>, 0, <<1, 3>>)},
        keypoint \in {"right_wrist", "right_elbow", "left_knee"},
        p \in MalformedPoints}

NextMalformed ==
    \/ \E t \in ThresholdInputs : SetCompareThreshold(t)
    \/ /\ call = Idle
       /\ \E u \in MalformedPoses, seed \in Seeds :
             CallCompareFramePoses(BasePose, u, 1, seed)
    \/ /\ call = Idle
       /\ \E o \in MalformedPoses, seed \in Seeds :
             CallCompareFramePoses(o, BasePose, 1, seed)
    \/ Return

SpecMalformed == Init /\ [][NextMalformed]_vars

(***************************************************************************)
(* Direct calls of calculate_angle, as test_angle_calculation makes them   *)
(***************************************************************************)

\* What the caller of calculate_angle gets: the angle or the exception
AngleOutcome(outcome) ==
    IF outcome.kind = "raise" THEN outcome ELSE Returned(outcome.value)

CallCalculateAngle(p1, p2, p3) ==
    /\ call = Idle
    /\ call' = [op |-> "calculate_angle", p1 |-> p1, p2 |-> p2, p3 |-> p3]
    /\ ret' = AngleOutcome(calculate_angle(p1, p2, p3))
    /\ UNCHANGED <<cfg_threshold, cfg_top_n, cmp_threshold, cmp_top_n, req, overlap, prev, tmp_files, tmp_count>>

NextAngle ==
    \/ /\ call = Idle
       /\ \E p1 \in Grid, p2 \in Grid, p3 \in Grid : CallCalculateAngle(p1, p2, p3)
    \/ Return

SpecAngle == Init /\ [][NextAngle]_vars

(***************************************************************************)
(* dance_analysis_api.analyze_dance: one upload request at a time.  The    *)
(* call record holds the position in the handler and its local names.      *)
(***************************************************************************)

PathNames == <<"original_path", "user_path", "json_path">>

\* The name tempfile.NamedTemporaryFile(delete=False) gives the file of the
\* n-th request that `name` is bound to: fresh for every request
TempFile(n, name) == <<n, name>>

Response(status) == [status |-> status, json |-> TRUE]

\* The request enters the try block
StartAnalyzeDance ==
    /\ call = Idle
    /\ tmp_count < MaxUploads
    /\ tmp_count' = tmp_count + 1
    /\ call' = [op |-> "analyze_dance", n |-> tmp_count + 1, pc |-> "save_original",
                locals |-> <<>>, failed |-> FALSE]
    /\ ret' = None
    /\ UNCHANGED <<cfg_threshold, cfg_top_n, cmp_threshold, cmp_top_n, req, overlap, prev,
                   tmp_files>>

\* A step of the try block that creates a temporary file, binds `name` to its
\* path and then writes to it; the write may raise.
CreateTempFile(pc, name, next_pc, ok) ==
    /\ call.op = "analyze_dance"
    /\ call.pc = pc
    /\ tmp_files' = tmp_files \cup {TempFile(call.n, name)}
    /\ call' = [call EXCEPT !.locals = (name :> TempFile(call.n, name)) @@ call.locals,
                            !.pc = IF ok THEN next_pc ELSE "handler",
                            !.failed = ~ok]
    /\ UNCHANGED <<cfg_threshold, cfg_top_n, cmp_threshold, cmp_top_n, ret, req, overlap,
                   prev, tmp_count>>

\* A step of the try block that creates no file; it may raise.
PlainStep(pc, next_pc, ok) ==
    /\ call.op = "analyze_dance"
    /\ call.pc = pc
    /\ call' = [call EXCEPT !.pc = IF ok THEN next_pc ELSE "handler", !.failed = ~ok]
    /\ UNCHANGED <<cfg_threshold, cfg_top_n, cmp_threshold, cmp_top_n, ret, req, overlap,
                   prev, tmp_files, tmp_count>>

\* with NamedTemporaryFile(...) as original_temp: original_file.save(original_path)
SaveOriginal(ok) == CreateTempFile("save_original", "original_path", "save_user", ok)

\* with NamedTemporaryFile(...) as user_temp: user_file.save(user_path)
SaveUser(ok) == CreateTempFile("save_user", "user_path", "extract_original", ok)

\* original_data = process_video_to_json(original_path, sample_fps)
ExtractOriginal(ok) == PlainStep("extract_original", "extract_user", ok)

\* user_data = process_video_to_json(user_path, sample_fps)
ExtractUser(ok) == PlainStep("extract_user", "write_json", ok)

\* with NamedTemporaryFile(...) as temp_json: json.dump(combined_data, temp_json)
WriteJson(ok) == CreateTempFile("write_json", "json_path", "analyze", ok)

\* analysis_results = process_pose_file(json_path, difficulty, sample_fps)
Analyze(ok) == PlainStep("analyze", "cleanup", ok)

\* os.unlink of the three paths, then return jsonify(analysis_results)
CleanUp ==
    /\ call.op = "analyze_dance"
    /\ call.pc = "cleanup"
    /\ tmp_files' = tmp_files \ {call.locals[PathNames[i]] : i \in 1..Len(PathNames)}
    /\ call' = [call EXCEPT !.pc = "done"]
    /\ ret' = Returned(Response(200))
    /\ UNCHANGED <<cfg_threshold, cfg_top_n, cmp_threshold, cmp_top_n, req, overlap, prev,
                   tmp_count>>

\* except Exception: the list [original_path, user_path, json_path] is built
\* before the loop starts, and reading a local name that was never bound
\* raises UnboundLocalError; 'path' in locals() is true inside the loop.
HandleError ==
    /\ call.op = "analyze_dance"
    /\ call.pc = "handler"
    /\ call' = [call EXCEPT !.pc = "done"]
    /\ IF \A i \in 1..Len(PathNames) : PathNames[i] \in DOMAIN call.locals
       THEN /\ tmp_files' =
                  tmp_files \ {call.locals[PathNames[i]] : i \in 1..Len(PathNames)}
            /\ ret' = Returned(Response(500))
       ELSE /\ tmp_files' = tmp_files
            /\ ret' = Raised("UnboundLocalError")
    /\ UNCHANGED <<cfg_threshold, cfg_top_n, cmp_threshold, cmp_top_n, req, overlap, prev,
                   tmp_count>>

\* The response is sent; the next request may come
EndRequest ==
    /\ call.op = "analyze_dance"
    /\ call.pc = "done"
    /\ call' = Idle
    /\ ret' = None
    /\ UNCHANGED <<cfg_threshold, cfg_top_n, cmp_threshold, cmp_top_n, req, overlap, prev,
                   tmp_files, tmp_count>>

NextUpload ==
    \/ StartAnalyzeDance
    \/ \E ok \in BOOLEAN : SaveOriginal(ok)
    \/ \E ok \in BOOLEAN : SaveUser(ok)
    \/ \E ok \in BOOLEAN : ExtractOriginal(ok)
    \/ \E ok \in BOOLEAN : ExtractUser(ok)
    \/ \E ok \in BOOLEAN : WriteJson(ok)
    \/ \E ok \in BOOLEAN : Analyze(ok)
    \/ CleanUp
    \/ HandleError
    \/ EndRequest

SpecUpload == Init /\ [][NextUpload]_vars

(***************************************************************************)
(* Comparisons followed by get_analysis_summary on the list they returned  *)
(***************************************************************************)

\* Frame 1 is off at the right arm and the torso, frame 2 at the torso only.
TorsoPoseData ==
    [original |-> [f \in {1, 2} |-> BasePose],
     user     |-> [f \in {1, 2} |-> IF f = 1 THEN Variant(<<2, 2>>, 3, <<2, 2>>)
                                             ELSE Variant(<<3, 3>>, 3, <<2, 2>>)]]

\* The user repeats the reference.
IdenticalPoseData ==
    [original |-> [f \in {1, 2} |-> BasePose], user |-> [f \in {1, 2} |-> BasePose]]

SummaryPoseDataInputs == {StylePoseData, TiedPoseData, TorsoPoseData, IdenticalPoseData}

\* A plausible slip: the summary reorders the caller's list in place.
CallGetAnalysisSummary_in_place ==
    /\ call = Idle
    /\ prev # None
    /\ prev.call.op = "compare_all_frames"
    /\ prev.ret.kind = "return"
    /\ call' = [op |-> "get_analysis_summary", results |-> prev.ret.value]
    /\ ret' = Returned(get_analysis_summary(prev.ret.value))
    /\ prev' = [prev EXCEPT !.ret.value = Reverse(@)]
    /\ UNCHANGED <<cfg_threshold, cfg_top_n, cmp_threshold, cmp_top_n, req, overlap,
                   tmp_files, tmp_count>>

\* summary = get_analysis_summary(results), results being the list the last
\* compare_all_frames call returned
CallGetAnalysisSummary ==
    /\ call = Idle
    /\ prev # None
    /\ prev.call.op = "compare_all_frames"
    /\ prev.ret.kind = "return"
    /\ call' = [op |-> "get_analysis_summary", results |-> prev.ret.value]
    /\ ret' = Returned(get_analysis_summary(prev.ret.value))
    /\ UNCHANGED <<cfg_threshold, cfg_top_n, cmp_threshold, cmp_top_n, req, overlap, prev,
                   tmp_files, tmp_count>>

NextSummary ==
    \/ \E t \in RepeatThresholdInputs : SetCompareThreshold(t)
    \/ \E n \in TopNInputs : UpdateTopNFrames(n)
    \/ /\ call = Idle
       /\ \E u \in RepeatUserPoses : CallCompareFramePoses(BasePose, u, 1, 0)
    \/ /\ call = Idle
       /\ \E pose_data \in SummaryPoseDataInputs :
             \E order \in IterationOrders(CommonFrames(pose_data)) :
                 CallCompareAllFrames(pose_data, order, 0)
    \/ CallGetAnalysisSummary
    \/ KeepResult

SpecSummary == Init /\ [][NextSummary]_vars

(***************************************************************************)
(* What the claims speak of, stated from the poses alone.                  *)
(***************************************************************************)
HasAllKeypoints(pose, joint) ==
    \A i \in 1..Len(JOINT_CONFIGS[joint]) : JOINT_CONFIGS[joint][i] \in DOMAIN pose

\* The angle of every joint of a pose, None where it does not resolve
AnglesOf(pose) ==
    [j \in JointNames |-> calculate_joint_angle(pose, JOINT_CONFIGS[j])]

\* The angles of the poses the specifications draw, computed once
AngleTable == [pose \in ReferencePoses \cup UserPoses \cup SequenceUserPoses |-> AnglesOf(pose)]

JointAngles(pose) ==
    IF pose \in DOMAIN AngleTable THEN AngleTable[pose] ELSE AnglesOf(pose)

Resolves(pose, joint) == JointAngles(pose)[joint] # None

\* user angle - reference angle of every joint that resolves in both poses
Deltas(original_pose, user_pose) ==
    LET oa == JointAngles(original_pose)
        ua == JointAngles(user_pose)
    IN  [j \in {x \in JointNames : oa[x] # None /\ ua[x] # None} |->
            ua[j].value - oa[j].value]

ResolvedJoints(original_pose, user_pose) == DOMAIN Deltas(original_pose, user_pose)

DeltaOf(original_pose, user_pose, joint) == Deltas(original_pose, user_pose)[joint]

RECURSIVE SumAbs(_, _)
SumAbs(deltas, S) ==
    IF S = {} THEN 0
    ELSE LET j == CHOOSE x \in S : TRUE
         IN  Abs(deltas[j]) + SumAbs(deltas, S \ {j})

\* Of a frame pair under threshold t: the joints whose delta is beyond t, and
\* the sum of their absolute deltas
FrameFact(original_pose, user_pose, t) ==
    LET deltas == Deltas(original_pose, user_pose)
        flagged == {j \in DOMAIN deltas : Abs(deltas[j]) > t}
    IN  [joints |-> flagged, flagged |-> flagged # {}, error |-> SumAbs(deltas, flagged)]

FlaggedJoints(original_pose, user_pose, t) == FrameFact(original_pose, user_pose, t).joints

FrameError(original_pose, user_pose, t) == FrameFact(original_pose, user_pose, t).error

IssuesOf(result) == IF result = None THEN <<>> ELSE result.joint_issues

IssueJoints(result) == {IssuesOf(result)[k].joint : k \in 1..Len(IssuesOf(result))}

RECURSIVE SumAbsDeltas(_, _)
SumAbsDeltas(issues, n) ==
    IF n = 0 THEN 0 ELSE Abs(issues[n].delta_angle) + SumAbsDeltas(issues, n - 1)

FrameCallDone == call.op = "compare_frame_poses"

AllFramesCallDone == call.op = "compare_all_frames"

\* For each common frame: whether a joint is beyond the active threshold, and
\* the frame's error under it
FrameFacts(pose_data) ==
    [f \in DOMAIN pose_data.original \cap DOMAIN pose_data.user |->
        FrameFact(pose_data.original[f], pose_data.user[f], cmp_threshold)]

FlaggedIn(facts) == {f \in DOMAIN facts : facts[f].flagged}

ReturnedIds(outcome) == {outcome.value[k].frame_id : k \in 1..Len(outcome.value)}

(***************************************************************************)
(* C1.  For every joint whose angle resolves in both poses,                *)
(* compare_frame_poses lists the joint in joint_issues iff |user angle -   *)
(* reference angle| is strictly above the active threshold (a delta equal  *)
(* to the threshold is not flagged), and the issue carries the signed      *)
(* delta user - reference.                                                 *)
(***************************************************************************)
C1_FlaggedIffDeltaAboveThreshold ==
    FrameCallDone =>
        LET deltas == Deltas(call.original_pose, call.user_pose)
            issues == IssuesOf(ret.value)
        IN  /\ ret.kind = "return"
            /\ \A j \in DOMAIN deltas :
                  /\ (j \in IssueJoints(ret.value)) <=> (Abs(deltas[j]) > cmp_threshold)
                  /\ \A k \in 1..Len(issues) :
                        issues[k].joint = j => issues[k].delta_angle = deltas[j]
                  /\ Cardinality({k \in 1..Len(issues) : issues[k].joint = j}) <= 1

\* A joint with |delta| equal to the threshold is left out while another joint,
\* with a negative delta, is flagged.
C1_Witness ==
    /\ FrameCallDone
    /\ \E j \in ResolvedJoints(call.original_pose, call.user_pose) :
          /\ Abs(DeltaOf(call.original_pose, call.user_pose, j)) = cmp_threshold
          /\ j \notin IssueJoints(ret.value)
    /\ \E k \in 1..Len(IssuesOf(ret.value)) : IssuesOf(ret.value)[k].delta_angle < 0

(***************************************************************************)
(* C2.  total_error of a FrameComparisonResult is the sum of |delta_angle| *)
(* over exactly the joints in joint_issues; resolved joints that were not  *)
(* flagged add nothing.                                                    *)
(***************************************************************************)
C2_TotalErrorSumsFlaggedJoints ==
    (FrameCallDone /\ ret.value # None) =>
        /\ ret.value.total_error
              = SumAbsDeltas(ret.value.joint_issues, Len(ret.value.joint_issues))
        /\ ret.value.total_error
              = FrameError(call.original_pose, call.user_pose, cmp_threshold)

\* Two or more issues, one of them negative, beside a resolved joint whose
\* non-zero delta stayed below the threshold.
C2_Witness ==
    /\ FrameCallDone
    /\ ret.value # None
    /\ Len(ret.value.joint_issues) >= 2
    /\ \E k \in 1..Len(ret.value.joint_issues) :
          ret.value.joint_issues[k].delta_angle < 0
    /\ \E j \in ResolvedJoints(call.original_pose, call.user_pose) :
          /\ j \notin IssueJoints(ret.value)
          /\ DeltaOf(call.original_pose, call.user_pose, j) # 0

(***************************************************************************)
(* C3.  compare_frame_poses returns None exactly when no joint is flagged, *)
(* so every element of the list compare_all_frames returns has a non-empty *)
(* joint_issues and a total_error strictly above the active threshold, and *)
(* a clean frame is never in the list.                                     *)
(***************************************************************************)
C3_NoCleanFrameReturned ==
    AllFramesCallDone =>
        LET flagged == FlaggedIn(FrameFacts(call.pose_data))
        IN  /\ ret.kind = "return"
            /\ \A k \in 1..Len(ret.value) :
                  /\ ret.value[k] # None
                  /\ ret.value[k].joint_issues # <<>>
                  /\ ret.value[k].total_error > cmp_threshold
            /\ ReturnedIds(ret) \subseteq flagged
            /\ Cardinality(flagged) <= cmp_top_n => ReturnedIds(ret) = flagged

\* A common frame with no joint beyond the threshold is left out of a non-empty list.
C3_Witness ==
    /\ AllFramesCallDone
    /\ ret.value # <<>>
    /\ \E f \in CommonFrames(call.pose_data) :
          f \notin FlaggedIn(FrameFacts(call.pose_data))

(***************************************************************************)
(* C4.  Every frame id compare_all_frames returns is a key of both         *)
(* sequences and occurs once; frames in one sequence only are ignored      *)
(* without error; disjoint key sets give the empty list.                   *)
(***************************************************************************)
C4_OnlyCommonFramesOnce ==
    AllFramesCallDone =>
        /\ ret.kind = "return"
        /\ \A k \in 1..Len(ret.value) :
              /\ ret.value[k].frame_id \in DOMAIN call.pose_data.original
              /\ ret.value[k].frame_id \in DOMAIN call.pose_data.user
        /\ \A k, l \in 1..Len(ret.value) :
              ret.value[k].frame_id = ret.value[l].frame_id => k = l
        /\ (DOMAIN call.pose_data.original \cap DOMAIN call.pose_data.user = {})
              => ret.value = <<>>

\* Frames of the reference alone and of the user alone lie beside returned frames.
C4_Witness ==
    /\ AllFramesCallDone
    /\ ret.value # <<>>
    /\ DOMAIN call.pose_data.original \ DOMAIN call.pose_data.user # {}
    /\ DOMAIN call.pose_data.user \ DOMAIN call.pose_data.original # {}

(***************************************************************************)
(* C5.  compare_all_frames returns the flagged frames worst first, cut to  *)
(* the first top-N: the list is sorted by total_error, non-increasing, its *)
(* length is min(top_n, number of flagged common frames), and no flagged   *)
(* frame left out has a total_error above that of a returned frame.        *)
(***************************************************************************)
C5_WorstFirstTopN ==
    AllFramesCallDone =>
        LET facts == FrameFacts(call.pose_data)
            flagged == FlaggedIn(facts)
        IN  /\ ret.kind = "return"
            /\ \A k \in 1..(Len(ret.value) - 1) :
                  ret.value[k].total_error >= ret.value[k + 1].total_error
            /\ Len(ret.value) = Min(cmp_top_n, Cardinality(flagged))
            /\ \A k \in 1..Len(ret.value) :
                  /\ ret.value[k].frame_id \in flagged
                  /\ ret.value[k].total_error = facts[ret.value[k].frame_id].error
            /\ \A f \in flagged \ ReturnedIds(ret) :
                  \A k \in 1..Len(ret.value) :
                      facts[f].error <= ret.value[k].total_error

\* More flagged frames than top-N, with different errors, met in descending
\* order of frame id: one is cut off.
C5_Witness ==
    /\ AllFramesCallDone
    /\ Cardinality(FlaggedIn(FrameFacts(call.pose_data))) > cmp_top_n
    /\ Len(ret.value) = cmp_top_n
    /\ ret.value[1].total_error > ret.value[Len(ret.value)].total_error
    /\ call.order # <<>> /\ call.order[1] > call.order[Len(call.order)]

(***************************************************************************)
(* C6.  Flagged frames of equal total_error are ordered, and chosen for    *)
(* the top-N, by the natural order of their frame ids, whatever order the  *)
(* set of common frame ids iterates in.                                    *)
(***************************************************************************)
C6_TiesByFrameId ==
    AllFramesCallDone =>
        LET facts == FrameFacts(call.pose_data)
        IN  /\ \A k \in 1..(Len(ret.value) - 1) :
                  ret.value[k].total_error = ret.value[k + 1].total_error
                      => ret.value[k].frame_id < ret.value[k + 1].frame_id
            /\ \A f \in FlaggedIn(facts) \ ReturnedIds(ret) :
                  \A k \in 1..Len(ret.value) :
                      facts[f].error = ret.value[k].total_error
                          => ret.value[k].frame_id < f

(***************************************************************************)
(* C7.  A joint with a keypoint absent from either pose is skipped: no     *)
(* JointIssue, nothing added to total_error, no exception; it is not taken *)
(* as agreement or as a zero angle.  compare_frame_poses returns a result  *)
(* or None and does not raise.                                             *)
(***************************************************************************)
C7_MissingKeypointSkipped ==
    FrameCallDone =>
        LET complete == {j \in JointNames : /\ HasAllKeypoints(call.original_pose, j)
                                            /\ HasAllKeypoints(call.user_pose, j)}
            fact == FrameFact(call.original_pose, call.user_pose, cmp_threshold)
        IN  /\ ret.kind = "return"
            /\ ret.value.kind \in {"None", "FrameComparisonResult"}
            /\ \A j \in JointNames \ complete : j \notin IssueJoints(ret.value)
            /\ SumAbsDeltas(IssuesOf(ret.value), Len(IssuesOf(ret.value)))
                  = SumAbs(Deltas(call.original_pose, call.user_pose),
                           fact.joints \cap complete)

\* The user pose lacks a keypoint of a joint whose reference angle is above the
\* threshold, and other joints of the frame are flagged.
C7_Witness ==
    /\ FrameCallDone
    /\ ret.value # None
    /\ \E j \in JointNames :
          /\ ~HasAllKeypoints(call.user_pose, j)
          /\ Resolves(call.original_pose, j)
          /\ JointAngles(call.original_pose)[j].value > cmp_threshold

(***************************************************************************)
(* The profile of a difficulty label and the two-tier lookup the           *)
(* specification describes: the threshold of the joint's category where    *)
(* the profile defines one, the profile's default threshold otherwise.     *)
(***************************************************************************)
AnalysisDone == call.op \in {"run_analysis", "compare_poses"}

JointCategory(joint) ==
    IF joint \in {"right_arm", "left_arm"} THEN "arms"
    ELSE IF joint \in {"right_leg", "left_leg"} THEN "legs"
    ELSE "torso"

threshold_for(joint_category, profile) ==
    IF /\ "category_thresholds" \in DOMAIN profile
       /\ joint_category \in DOMAIN profile.category_thresholds
    THEN profile.category_thresholds[joint_category]
    ELSE profile.angle_threshold

\* The frames an analysis returned: run_analysis lists them under "results"
ReturnedFrames(op, value) == IF op = "run_analysis" THEN value.results ELSE value

(***************************************************************************)
(* C8.  An analysis requested with a difficulty label (run_analysis, the   *)
(* /compare-poses endpoint on valid pose data) completes; the joints it    *)
(* flags are those whose delta is beyond the threshold of the label's      *)
(* profile; and the threshold run_analysis reports is that threshold.      *)
(***************************************************************************)
C8_AnalysisAppliesProfileThreshold ==
    (AnalysisDone /\ (call.op = "run_analysis" \/ validate_pose_data(call.pose_data))) =>
        /\ ret.kind = "return"
        /\ call.op = "run_analysis" =>
              ret.value.threshold = get_difficulty_config(call.difficulty).angle_threshold
        /\ \A k \in 1..Len(ReturnedFrames(call.op, ret.value)) :
              LET frame == ReturnedFrames(call.op, ret.value)[k]
              IN  {frame.joint_issues[n].joint : n \in 1..Len(frame.joint_issues)}
                    = FlaggedJoints(call.pose_data.original[frame.frame_id],
                                    call.pose_data.user[frame.frame_id],
                                    get_difficulty_config(call.difficulty).angle_threshold)

(***************************************************************************)
(* C9.  Two requests that each save the shared threshold, overwrite it     *)
(* with their own, compare and restore the saved value can interleave so   *)
(* that one compares under the other's threshold, and so that the shared   *)
(* threshold ends at a value other than the original.  Both happen only    *)
(* when requests are in flight together: requests that run one after the   *)
(* other each compare under their own threshold and leave config and       *)
(* compare at the original value.                                          *)
(***************************************************************************)
C9_LeakOnlyWhenRequestsOverlap ==
    ~overlap =>
        /\ \A r \in Requests :
              req[r].pc \in {"compared", "restored", "done"}
                  => req[r].used = OwnThreshold(r)
        /\ (\A r \in Requests : ~InFlight(r)) =>
              /\ cmp_threshold = DefaultAngleThreshold
              /\ cfg_threshold = DefaultAngleThreshold

\* Every request is done; one compared under another request's threshold and
\* found other frames than its own threshold gives; the shared threshold, in
\* config and in compare, is left at a value that is not the original.
C9_Witness ==
    /\ \A r \in Requests : req[r].pc = "done"
    /\ \E r \in Requests, o \in Requests :
          /\ o # r
          /\ req[r].used = OwnThreshold(o)
          /\ req[r].used # OwnThreshold(r)
          /\ req[r].found # req[o].found
    /\ cmp_threshold # DefaultAngleThreshold
    /\ cfg_threshold # DefaultAngleThreshold

(***************************************************************************)
(* C10.  The threshold applied to a joint during an analysis is the one    *)
(* the two-tier lookup gives for the joint's category in the profile of    *)
(* the requested difficulty: the category's threshold where the profile    *)
(* has one, the profile's default otherwise.                               *)
(***************************************************************************)
C10_TwoTierThresholdApplied ==
    AnalysisDone =>
        \A j \in JointNames :
            cmp_threshold
              = threshold_for(JointCategory(j), get_difficulty_config(call.difficulty))

(***************************************************************************)
(* C11.  For every label that is not a built-in difficulty label,          *)
(* get_difficulty_config gives the balanced profile: the angle_threshold   *)
(* and the priority joints of the 'intermediate' entry, in every           *)
(* configuration state, after any update_threshold calls.                  *)
(***************************************************************************)
C11_UnknownLabelIsBalanced ==
    \A difficulty \in DifficultyInputs \ DOMAIN DIFFICULTY_LEVELS :
        /\ get_difficulty_config(difficulty).angle_threshold
              = DIFFICULTY_LEVELS.intermediate.angle_threshold
        /\ get_difficulty_config(difficulty).priority_joints
              = DIFFICULTY_LEVELS.intermediate.priority_joints

(***************************************************************************)
(* C12.  compare_all_frames returns the first n ranked frames, n the top-N *)
(* of the active configuration: after config.update_top_n_frames(n) a call *)
(* returns min(n, number of flagged frames) frames.                        *)
(***************************************************************************)
C12_TopNFollowsConfiguration ==
    AllFramesCallDone =>
        /\ ret.kind = "return"
        /\ Len(ret.value)
              = Min(cfg_top_n, Cardinality(FlaggedIn(FrameFacts(call.pose_data))))

(***************************************************************************)
(* Repeated calls, SpecRepeat: the previous call and its result are kept   *)
(* in prev.                                                                *)
(***************************************************************************)

\* compare_frame_poses was called again with the same two poses
SamePosesAgain ==
    /\ FrameCallDone
    /\ prev # None
    /\ prev.call.op = "compare_frame_poses"
    /\ prev.call.original_pose = call.original_pose
    /\ prev.call.user_pose = call.user_pose
    /\ prev.call.frame_id = call.frame_id

\* compare_all_frames was called again with the same pose data and configuration
SamePoseDataAgain ==
    /\ AllFramesCallDone
    /\ prev # None
    /\ prev.call.op = "compare_all_frames"
    /\ prev.call.pose_data = call.pose_data
    /\ prev.threshold = cmp_threshold
    /\ prev.top_n = cmp_top_n
    /\ ret.kind = "return"
    /\ prev.ret.kind = "return"

\* The frame ids and total errors of a returned list, position by position
Ranking(outcome) ==
    [k \in 1..Len(outcome.value) |->
        [frame_id |-> outcome.value[k].frame_id,
         total_error |-> outcome.value[k].total_error]]

ErrorOf(result) == IF result = None THEN 0 ELSE result.total_error

\* C13: for fixed reference pose, user pose, frame id and threshold, a repeated
\* call of compare_frame_poses yields the same outcome as the call before it:
\* None both times, or results equal in every field, suggestion texts included.
C13_RepeatedFrameCallsAgree ==
    (SamePosesAgain /\ prev.threshold = cmp_threshold) => ret = prev.ret

\* C14: two calls of compare_all_frames with identical pose data and identical
\* configuration return the same frame ids in the same order with the same
\* total_error at each position.
C14_RepeatedSequenceCallsAgree ==
    SamePoseDataAgain => Ranking(ret) = Ranking(prev.ret)

\* C15: for fixed poses and thresholds t1 <= t2, the joints flagged under t2
\* are among those flagged under t1, and neither the number of flagged joints
\* nor total_error is larger under t2 than under t1.
C15_FlagsShrinkAsThresholdGrows ==
    (SamePosesAgain /\ prev.threshold <= cmp_threshold) =>
        /\ IssueJoints(ret.value) \subseteq IssueJoints(prev.ret.value)
        /\ Len(IssuesOf(ret.value)) <= Len(IssuesOf(prev.ret.value))
        /\ ErrorOf(ret.value) <= ErrorOf(prev.ret.value)

\* The higher threshold drops a joint and keeps another.
C15_Witness ==
    /\ SamePosesAgain
    /\ prev.threshold < cmp_threshold
    /\ ret.value # None
    /\ IssueJoints(ret.value) # IssueJoints(prev.ret.value)
    /\ ErrorOf(ret.value) < ErrorOf(prev.ret.value)

(***************************************************************************)
(* Suggestions                                                             *)
(***************************************************************************)

STRAIGHT_THRESHOLD == 160

BENT_THRESHOLD == 140

\* "straight" if > 160 degrees, "bent" if < 140 degrees
PostureMode(angle) ==
    IF angle > STRAIGHT_THRESHOLD THEN "straight"
    ELSE IF angle < BENT_THRESHOLD THEN "bent"
    ELSE "neutral"

ArmJoints == {"right_arm", "left_arm"}

Templates(joint, key) ==
    {SUGGESTION_TEMPLATES[joint][key][k] : k \in 1..Len(SUGGESTION_TEMPLATES[joint][key])}

\* The reference and the user angle of a flagged joint lie in different modes
ChangesMode(original_pose, user_pose, joint) ==
    PostureMode(JointAngles(original_pose)[joint].value)
        # PostureMode(JointAngles(user_pose)[joint].value)

\* C16: a flagged arm joint whose reference angle and user angle fall into
\* different posture modes (straight, bent, neutral) carries a suggestion drawn
\* from that joint's straighten or bend templates.
C16_ModeChangeSaysStraightenOrBend ==
    FrameCallDone =>
        \A k \in 1..Len(IssuesOf(ret.value)) :
            LET issue == IssuesOf(ret.value)[k]
            IN  (/\ issue.joint \in ArmJoints
                 /\ ChangesMode(call.original_pose, call.user_pose, issue.joint))
                    => issue.suggestion \in Templates(issue.joint, "straighten")
                                               \cup Templates(issue.joint, "bend")

SuggestionCallDone == call.op = "generate_suggestion"

AllTemplates(joint) ==
    UNION {Templates(joint, key) : key \in DOMAIN SUGGESTION_TEMPLATES[joint]}

\* The text is the one the catalog holds for this joint and this direction.
SuggestionFits(joint, delta, text) ==
    /\ text # ""
    /\ joint \in DOMAIN SUGGESTION_TEMPLATES =>
          /\ delta > 0 => text \in Templates(joint, "positive")
          /\ delta < 0 => text \in Templates(joint, "negative")
          /\ text \in AllTemplates(joint)
    /\ joint \notin DOMAIN SUGGESTION_TEMPLATES =>
          text = "Adjust your " \o joint \o " slightly"

IdenticalOnCommonFrames(pose_data) ==
    \A f \in CommonFrames(pose_data) : pose_data.user[f] = pose_data.original[f]

\* C18: when the reference pose and the user pose are identical in every
\* common frame, compare_all_frames returns the empty list, whatever the
\* top-N value and the threshold, in the configuration or active.
C18_IdenticalSequencesReturnNothing ==
    (AllFramesCallDone /\ IdenticalOnCommonFrames(call.pose_data)) =>
        ret = Returned(<<>>)

\* Several identical common frames, compared after both update_threshold and
\* update_top_n_frames were called and with another threshold active.
C18_Witness ==
    /\ AllFramesCallDone
    /\ IdenticalOnCommonFrames(call.pose_data)
    /\ Cardinality(CommonFrames(call.pose_data)) >= 2
    /\ \E f \in CommonFrames(call.pose_data) :
          HasAllKeypoints(call.pose_data.user[f], "right_arm")
    /\ cfg_threshold # DefaultAngleThreshold
    /\ cfg_top_n # DefaultTopNFrames
    /\ cmp_threshold # DefaultAngleThreshold
    /\ ret = Returned(<<>>)

(***************************************************************************)
(* Coordinates                                                             *)
(***************************************************************************)

\* C19: a keypoint with a zero component is present and valid: a joint whose
\* three keypoints are present in both poses has its angle computed in both,
\* and is never passed over as if a keypoint were missing.
C19_ZeroCoordinatesAreEvaluated ==
    FrameCallDone =>
        \A joint \in JointNames :
            (/\ HasAllKeypoints(call.original_pose, joint)
             /\ HasAllKeypoints(call.user_pose, joint))
                => /\ Resolves(call.original_pose, joint)
                   /\ Resolves(call.user_pose, joint)

\* Some keypoint of the pose has a component that is not a number.
IsMalformed(pose) == \E keypoint \in DOMAIN pose : HasNaN(pose[keypoint])

\* C20: when a keypoint of either pose carries a malformed coordinate, the
\* comparison fails with an error that reaches the caller; it does not return
\* a result or None as if the pose were well formed.
C20_MalformedCoordinateRaises ==
    (FrameCallDone /\ (IsMalformed(call.original_pose) \/ IsMalformed(call.user_pose)))
        => ret.kind = "raise"

(***************************************************************************)
(* calculate_angle                                                         *)
(***************************************************************************)

AngleCallDone == call.op = "calculate_angle"

\* The vectors from the vertex p2 to p1 and to p3
ToP1 == <<call.p1[1] - call.p2[1], call.p1[2] - call.p2[2]>>

ToP3 == <<call.p3[1] - call.p2[1], call.p3[2] - call.p2[2]>>

Dot(v, w) == v[1] * w[1] + v[2] * w[2]

Cross(v, w) == v[1] * w[2] - v[2] * w[1]

\* C21: calculate_angle returns 0 and raises nothing whenever the vertex p2
\* coincides with p1 or with p3, whatever the coordinates.
C21_CoincidentVertexGivesZero ==
    (AngleCallDone /\ (call.p2 = call.p1 \/ call.p2 = call.p3)) => ret = Returned(0)

\* C26: calculate_angle returns the angle at p2 between the rays to p1 and p3:
\* a value in [0, 180], 90 when the two vectors are perpendicular, and 180 when
\* the points are colinear with p2 between p1 and p3.
C26_AngleAtVertex ==
    AngleCallDone =>
        /\ ret.kind = "return"
        /\ ret.value \in 0..180
        /\ (Dot(ToP1, ToP3) = 0 /\ ToP1 # <<0, 0>> /\ ToP3 # <<0, 0>>) => ret.value = 90
        /\ (Cross(ToP1, ToP3) = 0 /\ Dot(ToP1, ToP3) < 0) => ret.value = 180

(***************************************************************************)
(* The /compare-poses endpoint                                             *)
(***************************************************************************)

ComparePosesDone == call.op = "compare_poses"

\* C29: a request whose pose data fails validate_pose_data is answered with
\* status 400; status 500 is for a comparison that fails.
C29_InvalidPoseDataAnswers400 ==
    (ComparePosesDone /\ ~validate_pose_data(call.pose_data))
        => ret = Raised("HTTPException(400)")

(***************************************************************************)
(* analyze_dance                                                           *)
(***************************************************************************)

UploadDone == call.op = "analyze_dance" /\ call.pc = "done"

\* The temporary files the request in progress has created
OwnTempFiles == {f \in tmp_files : f[1] = call.n}

\* C30: whichever step of analyze_dance fails after the uploads are saved, the
\* error handler deletes every temporary file created so far and answers with
\* a JSON response of status 500; on success the three files are deleted and
\* the answer is the analysis.  No temporary file outlives the request and the
\* handler does not raise.
C30_NoTempFileOutlivesRequest ==
    UploadDone =>
        /\ ret.kind = "return"
        /\ ret.value = Response(IF call.failed THEN 500 ELSE 200)
        /\ OwnTempFiles = {}

(***************************************************************************)
(* get_analysis_summary                                                    *)
(***************************************************************************)

SummaryCallDone == call.op = "get_analysis_summary"

\* The joints of all issues of the results, in the order of the scan
RECURSIVE JointsInOrder(_)
JointsInOrder(results) ==
    IF results = <<>> THEN <<>>
    ELSE [k \in 1..Len(Head(results).joint_issues) |->
             Head(results).joint_issues[k].joint] \o JointsInOrder(Tail(results))

\* How often a joint occurs in the issues of the results
Occurrences(results, joint) ==
    Cardinality({k \in 1..Len(JointsInOrder(results)) : JointsInOrder(results)[k] = joint})

\* Where the scan meets a joint for the first time
FirstSeen(results, joint) ==
    CHOOSE k \in 1..Len(JointsInOrder(results)) :
        /\ JointsInOrder(results)[k] = joint
        /\ \A j \in 1..(k - 1) : JointsInOrder(results)[j] # joint

RECURSIVE TotalOf(_)
TotalOf(results) ==
    IF results = <<>> THEN 0 ELSE Head(results).total_error + TotalOf(Tail(results))

\* The joints with the highest number of issues
MostFrequent(results) ==
    {joint \in JointNames :
        /\ Occurrences(results, joint) > 0
        /\ \A other \in JointNames :
              Occurrences(results, other) <= Occurrences(results, joint)}

\* C22: for a non-empty result list the summary's total_error is the sum of
\* the results' total_error, average_error is that total divided by the number
\* of results, and the most problematic joint occurs in an issue of the
\* results, no less often than any other joint.
C22_SummaryIsConsistent ==
    (SummaryCallDone /\ call.results # <<>>) =>
        /\ ret.kind = "return"
        /\ ret.value.total_frames_analyzed = Len(call.results)
        /\ ret.value.total_error = TotalOf(call.results)
        /\ ret.value.average_error
              = [dividend |-> TotalOf(call.results), divisor |-> Len(call.results)]
        /\ ret.value.most_problematic_joint \in MostFrequent(call.results)

\* Two results; a joint other than the first one scanned is the most frequent.
C22_Witness ==
    /\ SummaryCallDone
    /\ Len(call.results) >= 2
    /\ call.results[1].total_error > 0
    /\ ret.value.most_problematic_joint # JointsInOrder(call.results)[1]
    /\ ret.value.most_problematic_joint \in MostFrequent(call.results)

\* C24: when several joints share the highest issue count, the most
\* problematic joint is the one of them met first when the results are scanned
\* in list order and each result's joint_issues in order.
C24_TieGoesToFirstEncountered ==
    (SummaryCallDone /\ call.results # <<>>) =>
        \A joint \in MostFrequent(call.results) :
            FirstSeen(call.results, ret.value.most_problematic_joint)
                <= FirstSeen(call.results, joint)

\* Two joints share the highest count.
C24_Witness ==
    /\ SummaryCallDone
    /\ call.results # <<>>
    /\ Cardinality(MostFrequent(call.results)) >= 2
    /\ ret.value.most_problematic_joint = JointsInOrder(call.results)[1]

\* C23: get_analysis_summary on the empty list returns a summary with 0
\* analysed frames, and run_analysis of pose data without any flagged frame
\* (the user repeats the reference) then reports total_error 0 and
\* average_error 0.
C23_EmptySummaryReportsZero ==
    /\ get_analysis_summary(<<>>).total_frames_analyzed = 0
    /\ (call.op = "run_analysis" /\ IdenticalOnCommonFrames(call.pose_data)) =>
          /\ ret.kind = "return"
          /\ ret.value.problematic_frames = 0
          /\ ret.value.total_error = 0
          /\ ret.value.average_error = 0

(***************************************************************************)
(* Effects of the comparison functions                                     *)
(***************************************************************************)

EngineCalls == {"compare_frame_poses", "compare_all_frames", "get_analysis_summary"}

FlaggedUnderConfig(pose_data, f) ==
    FlaggedJoints(pose_data.original[f], pose_data.user[f], cfg_threshold)

\* C27: once config.update_threshold(t) has been called, compare_all_frames
\* flags a joint iff its |delta| exceeds t, the configured threshold, with no
\* further step: every returned frame carries exactly the joints beyond t, and
\* some frame is returned when a common frame has such a joint.
C27_UpdateThresholdTakesEffect ==
    (AllFramesCallDone /\ cfg_threshold # DefaultAngleThreshold) =>
        /\ ret.kind = "return"
        /\ \A k \in 1..Len(ret.value) :
              IssueJoints(ret.value[k])
                  = FlaggedUnderConfig(call.pose_data, ret.value[k].frame_id)
        /\ (\E f \in CommonFrames(call.pose_data) :
                FlaggedUnderConfig(call.pose_data, f) # {}) => ret.value # <<>>

(***************************************************************************)
(* The sequence save, overwrite, compare, restore, run by one caller       *)
(***************************************************************************)

\* C28: when one caller runs the sequence with no other caller interleaved,
\* then at its end, whether the comparison returned or raised, both
\* config.ANGLE_THRESHOLD and compare.ANGLE_THRESHOLD have the values they had
\* when the sequence began.
C28_SequenceRestoresBothThresholds ==
    [][\A r \in Requests :
          (req[r].pc # "done" /\ req'[r].pc = "done") =>
              /\ cfg_threshold' = req[r].saved
              /\ cmp_threshold' = req[r].compare_before]_vars

====
